---- MODULE Spec2Model ----
(***************************************************************************)
(* Model of CSTLFileWriter (SU2_CFD/src/output/filewriter/                *)
(* CSTLFileWriter.cpp): the distributed gather of a partitioned surface   *)
(* mesh into one ASCII STL file.  Every MPI rank runs Write_Data; the     *)
(* ranks meet in six collectives (Alltoall, Alltoallv, Alltoallv,         *)
(* Allreduce, Gather, Gather).                                            *)
(***************************************************************************)
EXTENDS Integers, Sequences, FiniteSets, TLC

(* ---- bounds of the model ---------------------------------------------- *)
MaxRanks == 3
NumNodes == 4
MaxElems == 2
NumFields == 4
MaxRanksFault == 2      \* ranks in the runs with a fault or a second invocation
MaxInvocations == 2     \* Write_Data calls on one writer object

(* ---- program constants ------------------------------------------------ *)
MASTER_NODE == 0
N_POINTS_TRIANGLE == 3
N_POINTS_QUADRILATERAL == 4
nCoord == 3
SigDigits == 6

(* A read outside the physical extent of a buffer. *)
Undef == 0 - 1

VARIABLES
  size,          \* number of MPI ranks
  nodeBegin,     \* data sorter: partition boundaries, nodeBegin[r+1] = NodeBegin(r)
  connTria,      \* data sorter: per rank, flat 1-based triangle connectivity
  connQuad,      \* data sorter: per rank, flat 1-based quadrilateral connectivity
  nFields,       \* fieldnames.size(): the coordinates and one further output field
  streamFault,   \* the file system: "none", or the ofstream operation that fails
  pc,            \* per rank: position inside Write_Data
  obj,           \* per rank: the members of the CSTLFileWriter object
  loc,           \* per rank: the locals of GatherCoordData that outlive a step
  calls,         \* per rank: the collectives entered so far, in order
  haloCalls,     \* per rank: number of GetHaloNodeValue calls made by GatherCoordData
  msgCount,      \* per rank: contribution posted to the Gather of counts
  msgData,       \* per rank: contribution posted to the Gather of buffers
  file,          \* the artifact: sequence of lines
  io,            \* file-system operations performed: sequence of <<rank, op>>
  aborted,       \* SU2_MPI::Error has been raised on some rank
  heap,          \* per rank: the new[], delete[] and file-writing reads, in order
  bigRun,        \* the counts of a run too large to hold node by node
  probe          \* result of a GetHaloNodeValue call made on the finished halo state

vars == <<size, nodeBegin, connTria, connQuad, nFields, streamFault, pc, obj, loc,
          calls, haloCalls, msgCount, msgData, file, io, aborted, heap, bigRun, probe>>

inputs == <<size, nodeBegin, connTria, connQuad, nFields, streamFault, bigRun>>

Ranks == 0 .. (size - 1)

(* ---- vectors: 0-based access to TLA+ sequences ------------------------ *)
At(s, i) == IF i >= 0 /\ i < Len(s) THEN s[i + 1] ELSE Undef

Max2(a, b) == IF a >= b THEN a ELSE b

RECURSIVE SumTo(_, _)
SumTo(s, n) == IF n <= 0 THEN 0 ELSE s[n] + SumTo(s, n - 1)

RECURSIVE SortedSeq(_)
SortedSeq(S) ==
  IF S = {} THEN <<>>
  ELSE LET m == CHOOSE x \in S : \A y \in S : x <= y
       IN  <<m>> \o SortedSeq(S \ {m})

(* ---- the type int ------------------------------------------------------ *)
INT_MAX == 2147483647

Limb == 256 * 256

(* The int that holds the product a * b computed in unsigned long: the     *)
(* low 32 bits of the product read as two's complement (static_cast<int>,  *)
(* l.251, and the assignments to int of l.138-141).  Computed in 16-bit    *)
(* limbs; exact for a below 2^31 and b below 2^15.                         *)
StaticCastInt(a, b) ==
  LET lo == (a % Limb) * b
      hi == ((a \div Limb) * b + lo \div Limb) % Limb
  IN  (IF hi >= Limb \div 2 THEN hi - Limb ELSE hi) * Limb + (lo % Limb)

(* std::vector::resize(n, 0): existing elements are kept, new ones are 0. *)
Resize(s, n) == [i \in 1 .. n |-> IF i <= Len(s) THEN s[i] ELSE 0]

(* std::lower_bound on a sorted vector: index of the first element >= x. *)
LowerBound(s, x) == Cardinality({i \in 1 .. Len(s) : s[i] < x})

(* ---- the data sorter (external collaborator) -------------------------- *)
GetNodeBegin(r) == nodeBegin[r + 1]

FindProcessor(n) ==
  IF \E r \in Ranks : nodeBegin[r + 1] <= n /\ n < nodeBegin[r + 2]
  THEN CHOOSE r \in Ranks : nodeBegin[r + 1] <= n /\ n < nodeBegin[r + 2]
  ELSE size - 1

GetnElemTria(r) == Len(connTria[r]) \div N_POINTS_TRIANGLE

GetnElemQuad(r) == Len(connQuad[r]) \div N_POINTS_QUADRILATERAL

GetElem_ConnectivityTria(r, iElem, iNode) ==
  At(connTria[r], iElem * N_POINTS_TRIANGLE + iNode)

GetElem_ConnectivityQuad(r, iElem, iNode) ==
  At(connQuad[r], iElem * N_POINTS_QUADRILATERAL + iNode)

(* The field values: field iVar of global node n.  Distinct for distinct   *)
(* (iVar, n) and never 0, so a misplaced or defaulted value is visible.    *)
FieldValue(iVar, n) == 10 * (n + 1) + iVar

GetData(r, iVar, offset) ==
  IF offset >= 0 /\ offset < nodeBegin[r + 2] - nodeBegin[r + 1] /\ iVar < nFields
  THEN FieldValue(iVar, nodeBegin[r + 1] + offset)
  ELSE Undef

(* ---- inputs drawn by Init ---------------------------------------------- *)
Monotone(t) ==
  \/ \A i \in DOMAIN t : i + 1 \in DOMAIN t => t[i] < t[i + 1]
  \/ \A i \in DOMAIN t : i + 1 \in DOMAIN t => t[i] > t[i + 1]

(* Triangles: three distinct nodes (1-based IDs), listed in ascending or   *)
(* in descending order.                                                    *)
TriaCorners ==
  {t \in [1 .. N_POINTS_TRIANGLE -> 1 .. NumNodes] : Monotone(t)}

(* Quadrilaterals: four distinct nodes, ascending or descending. *)
QuadCorners ==
  {q \in [1 .. N_POINTS_QUADRILATERAL -> 1 .. NumNodes] : Monotone(q)}

ElemChoices(sz) ==
  [owner : 0 .. (sz - 1), kind : {"tria"}, corners : TriaCorners] \cup
  [owner : 0 .. (sz - 1), kind : {"quad"}, corners : QuadCorners]

ElemLists(sz) ==
  UNION {[1 .. n -> ElemChoices(sz)] : n \in 0 .. MaxElems}

RECURSIVE FlatConn(_, _, _)
FlatConn(elems, r, kind) ==
  IF elems = <<>> THEN <<>>
  ELSE LET e == Head(elems)
       IN  (IF e.owner = r /\ e.kind = kind THEN e.corners ELSE <<>>)
             \o FlatConn(Tail(elems), r, kind)

(* Contiguous, increasing node ranges, every rank owning at least one node. *)
Partitions(sz) ==
  {nb \in [1 .. (sz + 1) -> 0 .. NumNodes] :
     /\ nb[1] = 0
     /\ nb[sz + 1] = NumNodes
     /\ \A i \in 1 .. sz : nb[i] < nb[i + 1]}

(* ---- the writer object after construction ----------------------------- *)
NewWriter ==
  [ halo_nodes                      |-> {},
    sorted_halo_nodes               |-> <<>>,
    num_halo_nodes                  |-> 0,
    num_nodes_to_receive            |-> <<>>,
    num_nodes_to_send               |-> <<>>,
    nodes_to_send_displacements     |-> <<>>,
    nodes_to_receive_displacements  |-> <<>>,
    nodes_to_send                   |-> <<>>,
    data_to_send                    |-> <<>>,
    halo_var_data                   |-> <<>>,
    num_values_to_send              |-> <<>>,
    values_to_send_displacements    |-> <<>>,
    num_values_to_receive           |-> <<>>,
    values_to_receive_displacements |-> <<>>,
    MaxLocalTriaAll                 |-> 0,
    Buffer_Recv_nTriaAll            |-> <<>>,
    bufD_Recv                       |-> <<>> ]

NoLocals == [nLocalTriaAll |-> 0, bufD_Send |-> <<>>]

NoBigRun ==
  [step |-> "none", nLocalTriaAll |-> <<>>, num_nodes_to_send |-> 0, nFields |-> 0,
   num_values_to_send |-> 0, MaxLocalTriaAll |-> 0, gather_count |-> 0]

NoProbe == [rank |-> 0, node |-> 0, iVar |-> 0, made |-> FALSE, found |-> FALSE, val |-> 0]

(* A freshly constructed writer on every rank of a run with one of the     *)
(* given rank counts, on a file system with one of the given faults, for   *)
(* one of the given numbers of output fields.                              *)
InitOf(sizes, faults, widths) ==
  \E sz \in sizes :
    \E nb \in Partitions(sz), elems \in ElemLists(sz) :
      /\ size = sz
      /\ nodeBegin = nb
      /\ nFields \in widths
      /\ streamFault \in faults
      /\ connTria = [r \in 0 .. (sz - 1) |-> FlatConn(elems, r, "tria")]
      /\ connQuad = [r \in 0 .. (sz - 1) |-> FlatConn(elems, r, "quad")]
      /\ pc = [r \in 0 .. (sz - 1) |-> "start"]
      /\ obj = [r \in 0 .. (sz - 1) |-> NewWriter]
      /\ loc = [r \in 0 .. (sz - 1) |-> NoLocals]
      /\ calls = [r \in 0 .. (sz - 1) |-> <<>>]
      /\ haloCalls = [r \in 0 .. (sz - 1) |-> 0]
      /\ msgCount = [r \in 0 .. (sz - 1) |-> <<>>]
      /\ msgData = [r \in 0 .. (sz - 1) |-> <<>>]
      /\ file = <<>>
      /\ io = <<>>
      /\ aborted = FALSE
      /\ heap = [r \in 0 .. (sz - 1) |-> <<>>]
      /\ bigRun = NoBigRun
      /\ probe = NoProbe

(* The same with the coordinates and one further field per node. *)
InitWith(sizes, faults) == InitOf(sizes, faults, {NumFields})

Init == InitWith(1 .. MaxRanks, {"none"})

(* ---- MPI helpers ------------------------------------------------------- *)
AllAt(label) == \A r \in Ranks : pc[r] = label

(* MPI_Alltoallv as seen by receiver p: block k of sender r's buffer that   *)
(* is addressed to p lands at p's displacement for r.  sendbufs, sendcounts *)
(* and sdispls give, per sender, its buffer, send counts and displacements. *)
AlltoallvRecv(p, sendbufs, sendcounts, sdispls, recvbuf, rdispls) ==
  [j \in 1 .. Len(recvbuf) |->
     LET src == {r \in Ranks :
                   /\ rdispls[r + 1] <= j - 1
                   /\ j - 1 < rdispls[r + 1] + sendcounts[r][p + 1]}
     IN  IF src = {} THEN recvbuf[j]
         ELSE LET r == CHOOSE x \in src : TRUE
              IN  At(sendbufs[r], sdispls[r][p + 1] + (j - 1 - rdispls[r + 1]))]

(* Variant: inclusive prefix sums, d[i] = d[i-1] + counts[i]. *)
Displacements_Inclusive(counts) == [i \in 1 .. size |-> SumTo(counts, i)]

(* Exclusive prefix sums: d[0] = 0, d[i] = d[i-1] + counts[i-1]. *)
Displacements(counts) == [i \in 1 .. size |-> SumTo(counts, i - 1)]

(* ---- 1. ReprocessElementConnectivity ---------------------------------- *)
(* Variant: every node of a triangle is inserted, owned or not. *)
HaloOfTria_All(r) ==
  {GetElem_ConnectivityTria(r, 0, i) - 1 :
     i \in 0 .. (GetnElemTria(r) * N_POINTS_TRIANGLE - 1)}

(* Nodes referred to by the local triangles but owned elsewhere (l.71-73). *)
HaloOfTria(r) ==
  {GetElem_ConnectivityTria(r, 0, i) - 1 :
     i \in {k \in 0 .. (GetnElemTria(r) * N_POINTS_TRIANGLE - 1) :
              FindProcessor(GetElem_ConnectivityTria(r, 0, k) - 1) # r}}

(* Variant: the loop over the quadrilaterals is left out. *)
HaloOfQuad_Forgotten(r) == {}

(* The same for the local quadrilaterals (l.75-77). *)
HaloOfQuad(r) ==
  {GetElem_ConnectivityQuad(r, 0, i) - 1 :
     i \in {k \in 0 .. (GetnElemQuad(r) * N_POINTS_QUADRILATERAL - 1) :
              FindProcessor(GetElem_ConnectivityQuad(r, 0, k) - 1) # r}}

(* ++num_nodes_to_receive[owner] for every halo node (l.59, l.89-98). *)
CountPerOwner(old, sorted) ==
  [p \in 1 .. size |->
     Resize(old, size)[p]
       + Cardinality({i \in 1 .. Len(sorted) : FindProcessor(sorted[i]) = p - 1})]

(* l.55-100 up to the entry into MPI_Alltoall. *)
ReprocessDemand(r) ==
  /\ ~aborted
  /\ pc[r] = "start"
  /\ LET halo   == HaloOfTria(r) \cup HaloOfQuad(r)
         sorted == SortedSeq(halo)
     IN  obj' = [obj EXCEPT ![r] =
           [@ EXCEPT
              !.halo_nodes = halo,
              !.sorted_halo_nodes = sorted,
              !.num_halo_nodes = Len(sorted),
              !.num_nodes_to_receive = CountPerOwner(@, sorted),
              !.values_to_receive_displacements = Resize(@, size),
              !.num_nodes_to_send = Resize(@, size)]]
  /\ pc' = [pc EXCEPT ![r] = "in_alltoall_demand"]
  /\ calls' = [calls EXCEPT ![r] = Append(@, "Alltoall(num_nodes)")]
  /\ UNCHANGED <<inputs, heap, loc, haloCalls, msgCount, msgData, file, io, aborted, probe>>

(* Variant: every rank gets its own counts back. *)
AlltoallDemand_NoExchange ==
  /\ ~aborted
  /\ AllAt("in_alltoall_demand")
  /\ obj' = [p \in Ranks |->
       [obj[p] EXCEPT !.num_nodes_to_send =
          [k \in 1 .. Len(@) |->
             IF k <= size THEN obj[p].num_nodes_to_receive[k] ELSE @[k]]]]
  /\ pc' = [r \in Ranks |-> "request"]
  /\ UNCHANGED <<inputs, heap, loc, calls, haloCalls, msgCount, msgData, file, io, aborted, probe>>

(* MPI_Alltoall of one int per peer (l.100): what r wants from p becomes   *)
(* what p must send to r.                                                  *)
AlltoallDemand ==
  /\ ~aborted
  /\ AllAt("in_alltoall_demand")
  /\ obj' = [p \in Ranks |->
       [obj[p] EXCEPT !.num_nodes_to_send =
          [k \in 1 .. Len(@) |->
             IF k <= size THEN obj[k - 1].num_nodes_to_receive[p + 1] ELSE @[k]]]]
  /\ pc' = [r \in Ranks |-> "request"]
  /\ UNCHANGED <<inputs, heap, loc, calls, haloCalls, msgCount, msgData, file, io, aborted, probe>>

(* Variant: only the last peer's count. *)
TotalNumNodesToSend_LastOnly(displs, counts) == counts[size]

(* total_num_nodes_to_send (l.116): the last displacement plus the last    *)
(* count, both from the counts the peers sent in the Alltoall.             *)
TotalNumNodesToSend(displs, counts) == displs[size] + counts[size]

(* Variant: an empty list stays empty. *)
AvoidCrash_Never(s) == s

(* if (sorted_halo_nodes.empty()) sorted_halo_nodes.resize(1) (l.122). *)
AvoidCrash(s) == IF s = <<>> THEN Resize(s, 1) ELSE s

(* Variant: a rank without halo nodes does not enter the MPI_Alltoallv. *)
ReprocessRequest_SkipEmptyHalo(r) ==
  /\ ~aborted
  /\ pc[r] = "request"
  /\ LET o     == obj[r]
         sd    == Displacements(o.num_nodes_to_send)
         rd    == Displacements(o.num_nodes_to_receive)
         total == TotalNumNodesToSend(sd, o.num_nodes_to_send)
     IN  obj' = [obj EXCEPT ![r] =
           [@ EXCEPT
              !.nodes_to_send_displacements = sd,
              !.nodes_to_receive_displacements = rd,
              !.nodes_to_send = Resize(@, Max2(1, total)),
              !.sorted_halo_nodes = AvoidCrash(@)]]
  /\ IF obj[r].num_halo_nodes = 0
     THEN /\ pc' = [pc EXCEPT ![r] = "data"]
          /\ UNCHANGED calls
     ELSE /\ pc' = [pc EXCEPT ![r] = "in_alltoallv_request"]
          /\ calls' = [calls EXCEPT ![r] = Append(@, "Alltoallv(nodes)")]
  /\ UNCHANGED <<inputs, heap, loc, haloCalls, msgCount, msgData, file, io, aborted, probe>>

(* l.106-125 up to the entry into the first MPI_Alltoallv. *)
ReprocessRequest(r) ==
  /\ ~aborted
  /\ pc[r] = "request"
  /\ LET o     == obj[r]
         sd    == Displacements(o.num_nodes_to_send)
         rd    == Displacements(o.num_nodes_to_receive)
         total == TotalNumNodesToSend(sd, o.num_nodes_to_send)
     IN  obj' = [obj EXCEPT ![r] =
           [@ EXCEPT
              !.nodes_to_send_displacements = sd,
              !.nodes_to_receive_displacements = rd,
              !.nodes_to_send = Resize(@, Max2(1, total)),
              !.sorted_halo_nodes = AvoidCrash(@)]]
  /\ pc' = [pc EXCEPT ![r] = "in_alltoallv_request"]
  /\ calls' = [calls EXCEPT ![r] = Append(@, "Alltoallv(nodes)")]
  /\ UNCHANGED <<inputs, heap, loc, haloCalls, msgCount, msgData, file, io, aborted, probe>>

(* Variant: every peer is sent the list from its beginning. *)
AlltoallvRequest_FromStart ==
  /\ ~aborted
  /\ AllAt("in_alltoallv_request")
  /\ obj' = [p \in Ranks |->
       [obj[p] EXCEPT !.nodes_to_send =
          AlltoallvRecv(p,
            [r \in Ranks |-> obj[r].sorted_halo_nodes],
            [r \in Ranks |-> obj[r].num_nodes_to_receive],
            [r \in Ranks |-> [k \in 1 .. size |-> 0]],
            @, obj[p].nodes_to_send_displacements)]]
  /\ pc' = [r \in Ranks |-> "data"]
  /\ UNCHANGED <<inputs, heap, loc, calls, haloCalls, msgCount, msgData, file, io, aborted, probe>>

(* MPI_Alltoallv of the wanted global node numbers (l.123-125). *)
AlltoallvRequest ==
  /\ ~aborted
  /\ AllAt("in_alltoallv_request")
  /\ obj' = [p \in Ranks |->
       [obj[p] EXCEPT !.nodes_to_send =
          AlltoallvRecv(p,
            [r \in Ranks |-> obj[r].sorted_halo_nodes],
            [r \in Ranks |-> obj[r].num_nodes_to_receive],
            [r \in Ranks |-> obj[r].nodes_to_receive_displacements],
            @, obj[p].nodes_to_send_displacements)]]
  /\ pc' = [r \in Ranks |-> "data"]
  /\ UNCHANGED <<inputs, heap, loc, calls, haloCalls, msgCount, msgData, file, io, aborted, probe>>

(* Variant: within a field, the requested nodes in reverse request order. *)
PackForRank_Reverse(r, o, iRank) ==
  LET n == o.num_nodes_to_send[iRank + 1]
  IN  [k \in 1 .. (n * nFields) |->
         LET iVar  == (k - 1) \div n
             iNode == n - 1 - ((k - 1) % n)
             node_offset ==
               At(o.nodes_to_send, o.nodes_to_send_displacements[iRank + 1] + iNode)
                 - GetNodeBegin(r)
         IN  GetData(r, iVar, node_offset)]

(* Variant: node by node, and within a node its fields. *)
PackForRank_NodeMajor(r, o, iRank) ==
  LET n == o.num_nodes_to_send[iRank + 1]
  IN  [k \in 1 .. (n * nFields) |->
         LET iVar  == (k - 1) % nFields
             iNode == (k - 1) \div nFields
             node_offset ==
               At(o.nodes_to_send, o.nodes_to_send_displacements[iRank + 1] + iNode)
                 - GetNodeBegin(r)
         IN  GetData(r, iVar, node_offset)]

(* The values packed for one peer (l.143-148): field by field, and within  *)
(* a field the peer's requested nodes in request order.                    *)
PackForRank(r, o, iRank) ==
  LET n == o.num_nodes_to_send[iRank + 1]
  IN  [k \in 1 .. (n * nFields) |->
         LET iVar  == (k - 1) \div n
             iNode == (k - 1) % n
             node_offset ==
               At(o.nodes_to_send, o.nodes_to_send_displacements[iRank + 1] + iNode)
                 - GetNodeBegin(r)
         IN  GetData(r, iVar, node_offset)]

RECURSIVE PackAll(_, _, _)
PackAll(r, o, nRank) ==
  IF nRank <= 0 THEN <<>>
  ELSE PackAll(r, o, nRank - 1) \o PackForRank(r, o, nRank - 1)

(* data_to_send[index++] = ... starting from index 0 (l.133-150). *)
StoreFromZero(buf, packed) ==
  [j \in 1 .. Len(buf) |-> IF j <= Len(packed) THEN packed[j] ELSE buf[j]]

(* The per-peer value counts and displacements (l.138-141). *)
NumValuesToSend(o) == [i \in 1 .. size |-> StaticCastInt(o.num_nodes_to_send[i], nFields)]

ValuesToSendDisplacements(o) ==
  [i \in 1 .. size |-> o.nodes_to_send_displacements[i] * nFields]

(* Variant: three coordinates per node instead of fieldnames.size(). *)
NumValuesToReceive_Coord(o) == [i \in 1 .. size |-> o.num_nodes_to_receive[i] * nCoord]

NumValuesToReceive(o) ==
  [i \in 1 .. size |-> StaticCastInt(o.num_nodes_to_receive[i], nFields)]

ValuesToReceiveDisplacements(o) ==
  [i \in 1 .. size |-> o.nodes_to_receive_displacements[i] * nFields]

(* l.128-154 up to the entry into the second MPI_Alltoallv. *)
ReprocessData(r) ==
  /\ ~aborted
  /\ pc[r] = "data"
  /\ LET o     == obj[r]
         total == TotalNumNodesToSend(o.nodes_to_send_displacements, o.num_nodes_to_send)
     IN  obj' = [obj EXCEPT ![r] =
           [@ EXCEPT
              !.data_to_send =
                 StoreFromZero(Resize(@, Max2(1, total * nFields)), PackAll(r, o, size)),
              !.halo_var_data = Resize(@, Max2(1, nFields * o.num_halo_nodes)),
              !.num_values_to_send = NumValuesToSend(o),
              !.values_to_send_displacements = ValuesToSendDisplacements(o),
              !.num_values_to_receive = NumValuesToReceive(o),
              !.values_to_receive_displacements = ValuesToReceiveDisplacements(o)]]
  /\ pc' = [pc EXCEPT ![r] = "in_alltoallv_data"]
  /\ calls' = [calls EXCEPT ![r] = Append(@, "Alltoallv(values)")]
  /\ UNCHANGED <<inputs, heap, loc, haloCalls, msgCount, msgData, file, io, aborted, probe>>

(* MPI_Alltoallv of the field values (l.152-154); the function returns. *)
AlltoallvData ==
  /\ ~aborted
  /\ AllAt("in_alltoallv_data")
  /\ obj' = [p \in Ranks |->
       [obj[p] EXCEPT !.halo_var_data =
          AlltoallvRecv(p,
            [r \in Ranks |-> obj[r].data_to_send],
            [r \in Ranks |-> obj[r].num_values_to_send],
            [r \in Ranks |-> obj[r].values_to_send_displacements],
            @, obj[p].values_to_receive_displacements)]]
  /\ pc' = [r \in Ranks |-> "gather_coord"]
  /\ UNCHANGED <<inputs, heap, loc, calls, haloCalls, msgCount, msgData, file, io, aborted, probe>>

(* ---- GetHaloNodeValue (l.335-352) -------------------------------------- *)
(* The double loop counts id over (iRank, i), i < num_nodes_to_receive[iRank]; *)
(* id == offset is met in the rank whose block of ids contains offset.        *)
HaloSlotRank(o, offset) ==
  {iRank \in Ranks :
     /\ SumTo(o.num_nodes_to_receive, iRank) <= offset
     /\ offset < SumTo(o.num_nodes_to_receive, iRank + 1)}

(* Variant: the search is bounded by the physical size of the list, so the *)
(* sentinel entry counts as a halo node.                                   *)
GetHaloNodeValue_PhysicalSize(o, global_node_number, iVar) ==
  LET offset == LowerBound(o.sorted_halo_nodes, global_node_number)
      slot   == HaloSlotRank(o, offset)
  IN  IF slot = {}
      THEN IF offset < Len(o.sorted_halo_nodes)
           THEN [found |-> TRUE, val |-> At(o.halo_var_data, offset)]
           ELSE [found |-> FALSE, val |-> 0]
      ELSE LET iRank == CHOOSE x \in slot : \A y \in slot : x <= y
               i     == offset - SumTo(o.num_nodes_to_receive, iRank)
               displ == o.values_to_receive_displacements[iRank + 1]
                          + o.num_nodes_to_receive[iRank + 1] * iVar
           IN  [found |-> TRUE, val |-> At(o.halo_var_data, displ + i)]

GetHaloNodeValue(o, global_node_number, iVar) ==
  LET offset == LowerBound(o.sorted_halo_nodes, global_node_number)
      slot   == HaloSlotRank(o, offset)
  IN  IF slot = {} THEN [found |-> FALSE, val |-> 0]
      ELSE LET iRank == CHOOSE x \in slot : \A y \in slot : x <= y
               i     == offset - SumTo(o.num_nodes_to_receive, iRank)
               displ == o.values_to_receive_displacements[iRank + 1]
                          + o.num_nodes_to_receive[iRank + 1] * iVar
           IN  [found |-> TRUE, val |-> At(o.halo_var_data, displ + i)]

(* ---- 2. GatherCoordData ------------------------------------------------ *)
(* Variant: the quadrilateral split along the other diagonal. *)
Nodelist_Fan == <<0, 1, 2, 0, 2, 3>>

(* Quad2Tri (l.183). *)
Nodelist == <<0, 1, 3, 1, 2, 3>>

(* Variant: a quadrilateral counted as one triangle. *)
LocalTriaAll_NoSplit(r) == GetnElemTria(r) + GetnElemQuad(r)

(* nLocalTriaAll: a quadrilateral is split into two triangles (l.189-191). *)
LocalTriaAll(r) == GetnElemTria(r) + GetnElemQuad(r) * 2

(* new unsigned long[nProcessor] on the master (l.193). *)
AllocatedForCounts(r) ==
  IF r = MASTER_NODE THEN << <<"new", "Buffer_Recv_nTriaAll">> >> ELSE <<>>

(* l.189-198 up to the entry into MPI_Allreduce. *)
GatherCoordBegin(r) ==
  /\ ~aborted
  /\ pc[r] = "gather_coord"
  /\ loc' = [loc EXCEPT ![r].nLocalTriaAll = LocalTriaAll(r)]
  /\ obj' = [obj EXCEPT ![r].Buffer_Recv_nTriaAll =
               IF r = MASTER_NODE THEN [i \in 1 .. size |-> Undef] ELSE @]
  /\ heap' = [heap EXCEPT ![r] = @ \o AllocatedForCounts(r)]
  /\ pc' = [pc EXCEPT ![r] = "in_allreduce"]
  /\ calls' = [calls EXCEPT ![r] = Append(@, "Allreduce(max)")]
  /\ UNCHANGED <<inputs, haloCalls, msgCount, msgData, file, io, aborted, probe>>

(* Variant: the reduction takes the minimum. *)
SetMax_Min(S) == CHOOSE x \in S : \A y \in S : x <= y

SetMax(S) == CHOOSE x \in S : \A y \in S : y <= x

(* MPI_Allreduce with MPI_MAX (l.198-199). *)
AllreduceMax ==
  /\ ~aborted
  /\ AllAt("in_allreduce")
  /\ obj' = [p \in Ranks |->
       [obj[p] EXCEPT !.MaxLocalTriaAll = SetMax({loc[r].nLocalTriaAll : r \in Ranks})]]
  /\ pc' = [r \in Ranks |-> "gather_count"]
  /\ UNCHANGED <<inputs, heap, loc, calls, haloCalls, msgCount, msgData, file, io, aborted, probe>>

(* Variant: a rank other than the master with no triangles skips the call. *)
GatherCount_SkipEmpty(r) ==
  /\ ~aborted
  /\ pc[r] = "gather_count"
  /\ IF loc[r].nLocalTriaAll = 0 /\ r # MASTER_NODE
     THEN UNCHANGED <<msgCount, calls>>
     ELSE /\ msgCount' = [msgCount EXCEPT ![r] = <<loc[r].nLocalTriaAll>>]
          /\ calls' = [calls EXCEPT ![r] = Append(@, "Gather(nTriaAll)")]
  /\ pc' = [pc EXCEPT ![r] = IF r = MASTER_NODE THEN "in_gather_count" ELSE "fill"]
  /\ UNCHANGED <<inputs, heap, obj, loc, haloCalls, msgData, file, io, aborted, probe>>

(* Entry into the MPI_Gather of the local triangle counts (l.201-203).  A  *)
(* rank other than the root leaves the call once its count is posted.      *)
GatherCount(r) ==
  /\ ~aborted
  /\ pc[r] = "gather_count"
  /\ msgCount' = [msgCount EXCEPT ![r] = <<loc[r].nLocalTriaAll>>]
  /\ pc' = [pc EXCEPT ![r] = IF r = MASTER_NODE THEN "in_gather_count" ELSE "fill"]
  /\ calls' = [calls EXCEPT ![r] = Append(@, "Gather(nTriaAll)")]
  /\ UNCHANGED <<inputs, heap, obj, loc, haloCalls, msgData, file, io, aborted, probe>>

(* The root leaves the MPI_Gather of the counts when every rank has posted. *)
GatherCountRoot ==
  /\ ~aborted
  /\ pc[MASTER_NODE] = "in_gather_count"
  /\ \A r \in Ranks : msgCount[r] # <<>>
  /\ obj' = [obj EXCEPT ![MASTER_NODE].Buffer_Recv_nTriaAll =
               [i \in 1 .. Len(@) |-> IF i <= size THEN msgCount[i - 1][1] ELSE @[i]]]
  /\ pc' = [pc EXCEPT ![MASTER_NODE] = "fill"]
  /\ UNCHANGED <<inputs, heap, loc, calls, haloCalls, msgCount, msgData, file, io, aborted, probe>>

(* One corner of one local triangle or split quadrilateral (l.216-227,     *)
(* l.235-246): the three coordinates, read locally or from the halo data.  *)
CornerNode(r, kind, iElem, iCorner) ==
  IF kind = "tria" THEN GetElem_ConnectivityTria(r, iElem, iCorner) - 1
  ELSE GetElem_ConnectivityQuad(r, iElem, iCorner) - 1

(* Variant: a node of another rank is read from that rank's send buffer. *)
CornerValue_PeerBuffer(r, global_node_number, iVar) ==
  IF FindProcessor(global_node_number) = r
  THEN [found |-> TRUE, val |-> GetData(r, iVar, global_node_number - GetNodeBegin(r))]
  ELSE [found |-> TRUE,
        val |-> At(loc[FindProcessor(global_node_number)].bufD_Send, iVar)]

(* Variant: every node is read from local storage. *)
CornerValue_AlwaysLocal(r, global_node_number, iVar) ==
  [found |-> TRUE, val |-> GetData(r, iVar, global_node_number - GetNodeBegin(r))]

CornerValue(r, global_node_number, iVar) ==
  IF FindProcessor(global_node_number) = r
  THEN [found |-> TRUE, val |-> GetData(r, iVar, global_node_number - GetNodeBegin(r))]
  ELSE GetHaloNodeValue(obj[r], global_node_number, iVar)

(* The node visited by the two fill loops at their k-th pass (k from 0):   *)
(* first every corner of every triangle, then the six Nodelist corners of  *)
(* every quadrilateral.                                                    *)
FillNode(r, k) ==
  IF k < GetnElemTria(r) * 3
  THEN CornerNode(r, "tria", k \div 3, k % 3)
  ELSE LET q == k - GetnElemTria(r) * 3
       IN  CornerNode(r, "quad", q \div Len(Nodelist), Nodelist[(q % Len(Nodelist)) + 1])

FillCount(r) == GetnElemTria(r) * 3 + GetnElemQuad(r) * Len(Nodelist)

(* bufD_Send[index++] for every visited node and iVar = 0, 1, 2. *)
FillValues(r) ==
  [k \in 1 .. (FillCount(r) * nCoord) |->
     CornerValue(r, FillNode(r, (k - 1) \div nCoord), (k - 1) % nCoord)]

(* Variant: a failed look-up goes on with the 0.0 of l.351. *)
ErrorRaised_Never(vals) == FALSE

(* Some look-up of the fill loops reaches SU2_MPI::Error (l.350). *)
ErrorRaised(vals) == \E k \in 1 .. Len(vals) : ~vals[k].found

(* SU2_MPI::Error: the message is printed and the whole run is aborted. *)
SU2_MPI_Error == TRUE

(* new su2double[...] for the send buffer, and on the master for the       *)
(* receive buffer (l.206-208).                                             *)
AllocatedForGather(r) ==
  << <<"new", "bufD_Send">> >>
    \o (IF r = MASTER_NODE THEN << <<"new", "bufD_Recv">> >> ELSE <<>>)

(* l.206-253: allocate the zeroed send buffer, fill it, enter the          *)
(* MPI_Gather of the buffers.  A failed halo look-up raises SU2_MPI::Error. *)
FillSendBuffer(r) ==
  /\ ~aborted
  /\ pc[r] = "fill"
  /\ \E vals \in {FillValues(r)}, cap \in {obj[r].MaxLocalTriaAll * 3 * 3} :
       \E filled \in {[j \in 1 .. cap |-> IF j <= Len(vals) THEN vals[j].val ELSE 0]} :
         IF ~ErrorRaised(vals)
         THEN /\ loc' = [loc EXCEPT ![r].bufD_Send = filled]
              /\ obj' = [obj EXCEPT ![r].bufD_Recv =
                           IF r = MASTER_NODE
                           THEN [j \in 1 .. (size * cap) |-> Undef] ELSE @]
              /\ haloCalls' = [haloCalls EXCEPT ![r] = @ +
                   Cardinality({k \in 0 .. (Len(vals) - 1) :
                                  FindProcessor(FillNode(r, k \div nCoord)) # r})]
              /\ msgData' = [msgData EXCEPT ![r] = <<filled>>]
              /\ pc' = [pc EXCEPT ![r] =
                          IF r = MASTER_NODE THEN "in_gather_data" ELSE "write"]
              /\ calls' = [calls EXCEPT ![r] = Append(@, "Gather(bufD)")]
              /\ UNCHANGED aborted
         ELSE /\ aborted' = SU2_MPI_Error
              /\ pc' = [pc EXCEPT ![r] = "error"]
              /\ haloCalls' = [haloCalls EXCEPT ![r] = @ +
                   Cardinality({k \in 0 .. (Len(vals) - 1) :
                     /\ FindProcessor(FillNode(r, k \div nCoord)) # r
                     /\ \A j \in 1 .. k : vals[j].found})]
              /\ UNCHANGED <<obj, loc, msgData, calls>>
  /\ heap' = [heap EXCEPT ![r] = @ \o AllocatedForGather(r)]
  /\ UNCHANGED <<inputs, msgCount, file, io, probe>>

(* The count given to MPI_Gather: static_cast<int>(MaxLocalTriaAll*3*3)    *)
(* (l.251-252).                                                            *)
GatherCountArg(MaxLocalTriaAll) == StaticCastInt(MaxLocalTriaAll, 3 * 3)

(* Variant: the root does not wait for the buffers of the other ranks. *)
GatherDataRoot_NoWait ==
  /\ ~aborted
  /\ pc[MASTER_NODE] = "in_gather_data"
  /\ LET cnt == GatherCountArg(obj[MASTER_NODE].MaxLocalTriaAll)
     IN  obj' = [obj EXCEPT ![MASTER_NODE].bufD_Recv =
           [j \in 1 .. Len(@) |->
              IF cnt > 0 /\ (j - 1) \div cnt < size /\ msgData[(j - 1) \div cnt] # <<>>
              THEN At(msgData[(j - 1) \div cnt][1], (j - 1) % cnt)
              ELSE @[j]]]
  /\ pc' = [pc EXCEPT ![MASTER_NODE] = "write"]
  /\ UNCHANGED <<inputs, heap, loc, calls, haloCalls, msgCount, msgData, file, io, aborted, probe>>

(* The root leaves the MPI_Gather of the buffers when every rank has       *)
(* posted: rank r's buffer lands at r * MaxLocalTriaAll*3*3 (l.251-253).   *)
GatherDataRoot ==
  /\ ~aborted
  /\ pc[MASTER_NODE] = "in_gather_data"
  /\ \A r \in Ranks : msgData[r] # <<>>
  /\ LET cnt == GatherCountArg(obj[MASTER_NODE].MaxLocalTriaAll)
     IN  obj' = [obj EXCEPT ![MASTER_NODE].bufD_Recv =
           [j \in 1 .. Len(@) |->
              IF cnt > 0 /\ (j - 1) \div cnt < size
              THEN At(msgData[(j - 1) \div cnt][1], (j - 1) % cnt)
              ELSE @[j]]]
  /\ pc' = [pc EXCEPT ![MASTER_NODE] = "write"]
  /\ UNCHANGED <<inputs, heap, loc, calls, haloCalls, msgCount, msgData, file, io, aborted, probe>>

(* ---- 3. Write_Data: the master writes the file (l.256, l.281-331) ------ *)
(* operator<< of a value under Surf_file.precision(6) (l.295, l.314): the  *)
(* value rounded to six significant digits.                                *)
RECURSIVE Pow10(_)
Pow10(n) == IF n <= 0 THEN 1 ELSE 10 * Pow10(n - 1)

RECURSIVE RoundUnit(_)
RoundUnit(v) == IF v < Pow10(SigDigits) THEN 1 ELSE 10 * RoundUnit(v \div 10)

Precision6(v) ==
  IF v < 0 THEN v ELSE ((v + RoundUnit(v) \div 2) \div RoundUnit(v)) * RoundUnit(v)

(* index = iProcessor*MaxLocalTriaAll*3*3 + iElem*3*3 + iPoint*3 (l.311). *)
VertexIndex(MaxLocalTriaAll, iProcessor, iElem, iPoint) ==
  iProcessor * MaxLocalTriaAll * 3 * 3 + iElem * 3 * 3 + iPoint * 3

(* Variant: the rank stride lacks MaxLocalTriaAll. *)
FacetLines_NoStride(bufD_Recv, MaxLocalTriaAll, iProcessor, iElem) ==
  <<  <<"facet normal", 1, 2, 3>>, <<"outer loop">> >>
  \o [iPoint \in 1 .. 3 |->
        LET index == iProcessor * 3 * 3 + iElem * 3 * 3 + (iPoint - 1) * 3
        IN  <<"vertex", Precision6(At(bufD_Recv, index)),
              Precision6(At(bufD_Recv, index + 1)),
              Precision6(At(bufD_Recv, index + 2))>>]
  \o << <<"endloop">>, <<"endfacet">> >>

FacetLines(bufD_Recv, MaxLocalTriaAll, iProcessor, iElem) ==
  <<  <<"facet normal", 1, 2, 3>>, <<"outer loop">> >>
  \o [iPoint \in 1 .. 3 |->
        LET index == VertexIndex(MaxLocalTriaAll, iProcessor, iElem, iPoint - 1)
        IN  <<"vertex", Precision6(At(bufD_Recv, index)),
              Precision6(At(bufD_Recv, index + 1)),
              Precision6(At(bufD_Recv, index + 2))>>]
  \o << <<"endloop">>, <<"endfacet">> >>

(* Variant: every triangle slot of the stride is written. *)
FacetCount_Stride(o, iProcessor) == o.MaxLocalTriaAll

(* The bound of the loop over iElem: Buffer_Recv_nTriaAll[iProcessor] (l.301). *)
FacetCount(o, iProcessor) == At(o.Buffer_Recv_nTriaAll, iProcessor)

(* The indices of bufD_Recv the write loops read for one rank (l.300-317). *)
ReadIndicesOf(o, iProcessor) ==
  {VertexIndex(o.MaxLocalTriaAll, iProcessor, iElem, iPoint) + iVar :
     iElem \in 0 .. (FacetCount(o, iProcessor) - 1), iPoint \in 0 .. 2, iVar \in 0 .. 2}

RECURSIVE FacetsOfRank(_, _, _, _)
FacetsOfRank(o, iProcessor, nElem, upTo) ==
  IF upTo <= 0 THEN <<>>
  ELSE FacetsOfRank(o, iProcessor, nElem, upTo - 1)
         \o FacetLines(o.bufD_Recv, o.MaxLocalTriaAll, iProcessor, upTo - 1)

RECURSIVE FacetsUpToRank(_, _)
FacetsUpToRank(o, nProcessor) ==
  IF nProcessor <= 0 THEN <<>>
  ELSE FacetsUpToRank(o, nProcessor - 1)
         \o FacetsOfRank(o, nProcessor - 1, FacetCount(o, nProcessor - 1),
                         FacetCount(o, nProcessor - 1))

(* Variant: the rank test is missing. *)
IsWriter_Any(r) == TRUE

(* Only the master rank writes (l.291). *)
IsWriter(r) == r = MASTER_NODE

(* Variant: without facets nothing follows the header. *)
FileLines_FooterAfterFacets(o, nProcessor) ==
  << <<"solid SU2_output">> >>
    \o FacetsUpToRank(o, nProcessor)
    \o (IF FacetsUpToRank(o, nProcessor) = <<>> THEN <<>>
        ELSE << <<"endsolid SU2_output">> >>)

(* Everything the master sends to Surf_file, line by line (l.297-324). *)
FileLines(o, nProcessor) ==
  << <<"solid SU2_output">> >>
    \o FacetsUpToRank(o, nProcessor)
    \o << <<"endsolid SU2_output">> >>

(* The buffers the write loops read: the counts as loop bounds (l.301),    *)
(* the gathered scalars when there is a facet (l.314).                     *)
ReadByWriter(o) ==
  << <<"read", "Buffer_Recv_nTriaAll">> >>
    \o (IF \E iProcessor \in Ranks : FacetCount(o, iProcessor) > 0
        THEN << <<"read", "bufD_Recv">> >> ELSE <<>>)

(* A member pointer is NULL after construction and is never reset: it is   *)
(* not NULL once the rank has allocated the buffer.                        *)
NotNull(r, buffer) == \E i \in 1 .. Len(heap[r]) : heap[r][i] = <<"new", buffer>>

(* Variant: the two delete[] without the tests for NULL. *)
ReleasedAtReturn_NoNullTest(r) ==
  << <<"delete", "bufD_Recv">>, <<"delete", "Buffer_Recv_nTriaAll">> >>

(* if (p != NULL) delete [] p for the two receive buffers (l.330-331). *)
ReleasedAtReturn(r) ==
  (IF NotNull(r, "bufD_Recv") THEN << <<"delete", "bufD_Recv">> >> ELSE <<>>)
    \o (IF NotNull(r, "Buffer_Recv_nTriaAll")
        THEN << <<"delete", "Buffer_Recv_nTriaAll">> >> ELSE <<>>)

(* l.256 and l.281-331.  Neither Surf_file.open nor any operator<< is      *)
(* tested: after a failed open every output is dropped, after a failed     *)
(* write the rest is, and the function returns as it does on success.      *)
WriteFile(r) ==
  /\ ~aborted
  /\ pc[r] = "write"
  /\ loc' = [loc EXCEPT ![r].bufD_Send = <<>>]
  /\ IF IsWriter(r)
     THEN \E lines \in {FileLines(obj[r], size)} :
            IF streamFault = "none"
            THEN /\ file' = lines
                 /\ io' = io \o << <<r, "open">>, <<r, "write">>, <<r, "close">> >>
            ELSE IF streamFault = "open"
            THEN /\ file' = file
                 /\ io' = io \o << <<r, "open_failed">> >>
            ELSE /\ \E k \in 0 .. (Len(lines) - 1) : file' = SubSeq(lines, 1, k)
                 /\ io' = io \o << <<r, "open">>, <<r, "write_failed">>, <<r, "close">> >>
     ELSE UNCHANGED <<file, io>>
  /\ obj' = [obj EXCEPT ![r].bufD_Recv = <<>>, ![r].Buffer_Recv_nTriaAll = <<>>]
  /\ heap' = [heap EXCEPT ![r] =
       @ \o << <<"delete", "bufD_Send">> >>
         \o (IF IsWriter(r) THEN ReadByWriter(obj[r]) ELSE <<>>)
         \o ReleasedAtReturn(r)]
  /\ pc' = [pc EXCEPT ![r] = "done"]
  /\ UNCHANGED <<inputs, calls, haloCalls, msgCount, msgData, aborted, probe>>

(* ---- a GetHaloNodeValue call on the halo state Write_Data leaves ------- *)
ProbeNodes == 0 .. NumNodes

GetHaloNodeValueCall(r) ==
  /\ ~aborted
  /\ AllAt("done")
  /\ ~probe.made
  /\ \E n \in ProbeNodes, iVar \in 0 .. (nCoord - 1) :
       \E res \in {GetHaloNodeValue(obj[r], n, iVar)} :
         probe' = [rank |-> r, node |-> n, iVar |-> iVar, made |-> TRUE,
                   found |-> res.found, val |-> res.val]
  /\ UNCHANGED <<inputs, heap, pc, obj, loc, calls, haloCalls, msgCount, msgData, file, io, aborted>>

Next ==
  \/ \E r \in Ranks : ReprocessDemand(r)
  \/ AlltoallDemand
  \/ \E r \in Ranks : ReprocessRequest(r)
  \/ AlltoallvRequest
  \/ \E r \in Ranks : ReprocessData(r)
  \/ AlltoallvData
  \/ \E r \in Ranks : GatherCoordBegin(r)
  \/ AllreduceMax
  \/ \E r \in Ranks : GatherCount(r)
  \/ GatherCountRoot
  \/ \E r \in Ranks : FillSendBuffer(r)
  \/ GatherDataRoot
  \/ \E r \in Ranks : WriteFile(r)


Spec == Init /\ [][Next]_vars

NextProbe == Next \/ \E r \in Ranks : GetHaloNodeValueCall(r)

SpecProbe == Init /\ [][NextProbe]_vars

(* Every rank is a running process: as long as some rank can take a step  *)
(* or some collective can complete, a step is taken.                       *)
SpecFair == Init /\ [][Next]_vars /\ WF_vars(Next)

(* Write_Data called again on the same writer objects, the mesh unchanged. *)
(* The members keep what the previous call left in them; the locals and    *)
(* the messages are those of the new call.  Every rank re-enters; as the   *)
(* first collective waits for all of them, they are taken in one step.     *)
Invocations(r) ==
  Cardinality({i \in 1 .. Len(calls[r]) : calls[r][i] = "Alltoall(num_nodes)"})

WriteDataAgain ==
  /\ ~aborted
  /\ AllAt("done")
  /\ Invocations(MASTER_NODE) < MaxInvocations
  /\ pc' = [r \in Ranks |-> "start"]
  /\ loc' = [r \in Ranks |-> NoLocals]
  /\ msgCount' = [r \in Ranks |-> <<>>]
  /\ msgData' = [r \in Ranks |-> <<>>]
  /\ UNCHANGED <<inputs, heap, obj, calls, haloCalls, file, io, aborted, probe>>

InitAgain == InitWith(1 .. MaxRanksFault, {"none"})

NextAgain == Next \/ WriteDataAgain

SpecAgain == InitAgain /\ [][NextAgain]_vars

(* Write_Data on a data sorter whose ownership map changes between the     *)
(* halo exchange and GatherCoordData: ownership and connectivity diverge.  *)
SorterDiverges ==
  /\ ~aborted
  /\ AllAt("gather_coord")
  /\ \E nb \in Partitions(size) :
       /\ nb # nodeBegin
       /\ nodeBegin' = nb
  /\ UNCHANGED <<size, connTria, connQuad, nFields, streamFault, pc, obj, loc, calls,
                 haloCalls, msgCount, msgData, file, io, aborted, heap, bigRun, probe>>

InitDiverged == InitWith(1 .. MaxRanksFault, {"none"})

NextDiverged == Next \/ SorterDiverges

SpecDiverged == InitDiverged /\ [][NextDiverged]_vars

(* Write_Data on a file system where opening or writing the file may fail. *)
StreamFaults == {"none", "open", "write"}

InitIO == InitWith(1 .. MaxRanksFault, StreamFaults)

SpecIO == InitIO /\ [][Next]_vars

(* Write_Data of writers constructed with fewer or more fields than the    *)
(* three coordinates (constructor argument fields, l.36-44).               *)
FieldCounts == (nCoord - 1) .. NumFields

InitFields == InitOf(1 .. MaxRanksFault, {"none"}, FieldCounts)

SpecFields == InitFields /\ [][Next]_vars

(* A run too large to hold node by node, described by its counts: the     *)
(* triangles (quadrilaterals split) of every rank, the nodes one rank must *)
(* supply, the field count.  The steps are the computations of Write_Data  *)
(* on these counts.                                                        *)
MaxBigRanks == 2

BigTriaCounts ==
  {0, MaxElems, INT_MAX \div 9 - 1, INT_MAX \div 9, INT_MAX \div 9 + 1,
   INT_MAX \div 9 + MaxElems}

BigNodeCounts ==
  {0, NumNodes, INT_MAX \div NumFields, INT_MAX \div NumFields + 1}

InitCounts ==
  \E sz \in 1 .. MaxBigRanks :
    /\ size = sz
    /\ nodeBegin = [i \in 1 .. (sz + 1) |-> i - 1]
    /\ nFields = NumFields
    /\ streamFault = "none"
    /\ connTria = [r \in 0 .. (sz - 1) |-> <<>>]
    /\ connQuad = [r \in 0 .. (sz - 1) |-> <<>>]
    /\ pc = [r \in 0 .. (sz - 1) |-> "start"]
    /\ obj = [r \in 0 .. (sz - 1) |-> NewWriter]
    /\ loc = [r \in 0 .. (sz - 1) |-> NoLocals]
    /\ calls = [r \in 0 .. (sz - 1) |-> <<>>]
    /\ haloCalls = [r \in 0 .. (sz - 1) |-> 0]
    /\ msgCount = [r \in 0 .. (sz - 1) |-> <<>>]
    /\ msgData = [r \in 0 .. (sz - 1) |-> <<>>]
    /\ file = <<>>
    /\ io = <<>>
    /\ aborted = FALSE
    /\ heap = [r \in 0 .. (sz - 1) |-> <<>>]
    /\ probe = NoProbe
    /\ \E counts \in [1 .. sz -> BigTriaCounts],
          n \in (IF sz > 1 THEN BigNodeCounts ELSE {0}) :
         bigRun = [NoBigRun EXCEPT !.step = "data", !.nLocalTriaAll = counts,
                                   !.num_nodes_to_send = n, !.nFields = NumFields]

(* num_values_to_send = num_nodes_to_send * fieldnames.size() (l.138). *)
BigDataCounts ==
  /\ bigRun.step = "data"
  /\ bigRun' = [bigRun EXCEPT
       !.num_values_to_send = StaticCastInt(bigRun.num_nodes_to_send, bigRun.nFields),
       !.step = "reduce"]
  /\ UNCHANGED <<size, nodeBegin, connTria, connQuad, nFields, streamFault, pc, obj, loc,
                 calls, haloCalls, msgCount, msgData, file, io, aborted, heap, probe>>

(* MPI_Allreduce with MPI_MAX on unsigned long (l.198-199). *)
BigAllreduce ==
  /\ bigRun.step = "reduce"
  /\ bigRun' = [bigRun EXCEPT
       !.MaxLocalTriaAll = SetMax({bigRun.nLocalTriaAll[i] : i \in 1 .. size}),
       !.step = "gather"]
  /\ UNCHANGED <<size, nodeBegin, connTria, connQuad, nFields, streamFault, pc, obj, loc,
                 calls, haloCalls, msgCount, msgData, file, io, aborted, heap, probe>>

(* The count of the MPI_Gather of the buffers (l.251-253). *)
BigGatherCount ==
  /\ bigRun.step = "gather"
  /\ bigRun' = [bigRun EXCEPT
       !.gather_count = GatherCountArg(bigRun.MaxLocalTriaAll),
       !.step = "done"]
  /\ UNCHANGED <<size, nodeBegin, connTria, connQuad, nFields, streamFault, pc, obj, loc,
                 calls, haloCalls, msgCount, msgData, file, io, aborted, heap, probe>>

NextCounts == BigDataCounts \/ BigAllreduce \/ BigGatherCount

SpecCounts == InitCounts /\ [][NextCounts]_vars

(* ======================================================================== *)
(* Properties                                                               *)
(* ======================================================================== *)

(* The rank has returned from ReprocessElementConnectivity. *)
HaloDone(r) ==
  pc[r] \in {"gather_coord", "in_allreduce", "gather_count", "in_gather_count",
             "fill", "in_gather_data", "write", "done"}

(* The rank holds a filled send buffer. *)
BufferFilled(r) == pc[r] \in {"in_gather_data", "write"}

(* Global IDs of the corners of the rank's elements, read off the mesh. *)
Corners(r) ==
  {connTria[r][i] - 1 : i \in 1 .. Len(connTria[r])} \cup
  {connQuad[r][i] - 1 : i \in 1 .. Len(connQuad[r])}

OwnerOf(n) == CHOOSE p \in Ranks : nodeBegin[p + 1] <= n /\ n < nodeBegin[p + 2]

HaloSetOf(r) == {n \in Corners(r) : OwnerOf(n) # r}

(* The value the owner of node n holds for field f. *)
OwnerValue(f, n) == GetData(OwnerOf(n), f, n - GetNodeBegin(OwnerOf(n)))

TrueCount(r) ==
  Len(connTria[r]) \div 3 + 2 * (Len(connQuad[r]) \div 4)

(* Corner nodes of the t-th triangle (from 0) a rank contributes: its      *)
(* triangles in element order, then [A,B,D], [B,C,D] of each quadrilateral. *)
ExpectedTriangle(r, t) ==
  LET nT == Len(connTria[r]) \div 3
  IN  IF t < nT
      THEN <<connTria[r][3 * t + 1] - 1, connTria[r][3 * t + 2] - 1,
             connTria[r][3 * t + 3] - 1>>
      ELSE LET q == (t - nT) \div 2
               A == connQuad[r][4 * q + 1] - 1
               B == connQuad[r][4 * q + 2] - 1
               C == connQuad[r][4 * q + 3] - 1
               D == connQuad[r][4 * q + 4] - 1
           IN  IF (t - nT) % 2 = 0 THEN <<A, B, D>> ELSE <<B, C, D>>

(* C1: halo completeness.  No rank raises the 'Halo node not found' error, *)
(* and once a rank has finished the halo exchange every corner node of     *)
(* every local triangle and quadrilateral resolves, locally or through     *)
(* GetHaloNodeValue.                                                       *)
C1_HaloCompleteness ==
  /\ ~aborted
  /\ \A r \in Ranks :
       /\ pc[r] # "error"
       /\ HaloDone(r) =>
            \A n \in Corners(r), iVar \in 0 .. (nCoord - 1) :
              CornerValue(r, n, iVar).found

C1_Witness ==
  \E r \in Ranks :
    /\ pc[r] = "done"
    /\ haloCalls[r] > 0
    /\ \E i \in 1 .. Len(connQuad[r]) : OwnerOf(connQuad[r][i] - 1) # r

(* C2: halo value correctness.  After the exchanges, GetHaloNodeValue(n,f) *)
(* on rank r returns, for every halo node n of r and coordinate f, the     *)
(* value the owner of n holds for f.                                       *)
C2_HaloValues ==
  \A r \in Ranks :
    HaloDone(r) =>
      \A n \in HaloSetOf(r), f \in 0 .. (nCoord - 1) :
        GetHaloNodeValue(obj[r], n, f) = [found |-> TRUE, val |-> OwnerValue(f, n)]

C2_Witness ==
  \E r \in Ranks :
    /\ HaloDone(r)
    /\ \E n1, n2, n3 \in HaloSetOf(r) :
         /\ n1 # n2
         /\ OwnerOf(n1) = OwnerOf(n2)
         /\ OwnerOf(n3) < OwnerOf(n1)

(* C3: conservation.  The counts gathered on the master are               *)
(* localTriangles + 2 * localQuads of each rank, and the finished file     *)
(* holds as many facet records as the sum of these counts.                 *)
NumFacets(f) == Cardinality({i \in 1 .. Len(f) : f[i][1] = "facet normal"})

TotalTrueCount == SumTo([i \in 1 .. size |-> TrueCount(i - 1)], size)

C3_Conservation ==
  /\ pc[MASTER_NODE] \in {"fill", "in_gather_data", "write"} =>
       \A r \in Ranks : At(obj[MASTER_NODE].Buffer_Recv_nTriaAll, r) = TrueCount(r)
  /\ pc[MASTER_NODE] = "done" => NumFacets(file) = TotalTrueCount

C3_Witness ==
  /\ pc[MASTER_NODE] = "done"
  /\ \E r1, r2 \in Ranks :
       r1 # r2 /\ Len(connQuad[r1]) > 0 /\ Len(connTria[r2]) > 0

(* C4: a GetHaloNodeValue call for a node that is not in the rank's halo   *)
(* set never returns a value: it ends in the error.                        *)
C4_MissingHaloNodeIsFatal ==
  (probe.made /\ probe.node \notin HaloSetOf(probe.rank)) => ~probe.found

(* C5: every rank enters the same collectives in the same order: what a    *)
(* rank has called so far is a prefix of the one fixed sequence, and a     *)
(* rank that is done has called all six.                                   *)
CollectiveOrder ==
  <<"Alltoall(num_nodes)", "Alltoallv(nodes)", "Alltoallv(values)",
    "Allreduce(max)", "Gather(nTriaAll)", "Gather(bufD)">>

IsPrefix(a, b) == Len(a) <= Len(b) /\ \A i \in 1 .. Len(a) : a[i] = b[i]

C5_SameCollectiveOrder ==
  \A r \in Ranks :
    /\ IsPrefix(calls[r], CollectiveOrder)
    /\ pc[r] = "done" => calls[r] = CollectiveOrder

C5_Witness ==
  /\ AllAt("done")
  /\ \E r1, r2 \in Ranks :
       /\ r1 # r2
       /\ TrueCount(r1) = 0
       /\ HaloSetOf(r2) # {}
       /\ calls[r1] = calls[r2]

(* C6: collective sizes agree.  In the request and in the data exchange    *)
(* the count r declares to send to p is the count p declares to receive    *)
(* from r, and every buffer posted to the final gather has the stride the  *)
(* master expects.                                                         *)
C6_CollectiveSizesAgree ==
  /\ AllAt("in_alltoallv_request") =>
       \A r, p \in Ranks :
         obj[r].num_nodes_to_receive[p + 1] = obj[p].num_nodes_to_send[r + 1]
  /\ AllAt("in_alltoallv_data") =>
       \A r, p \in Ranks :
         /\ obj[p].num_values_to_send[r + 1] = obj[r].num_values_to_receive[p + 1]
         /\ obj[p].num_values_to_send[r + 1] = obj[p].num_nodes_to_send[r + 1] * nFields
         /\ obj[r].num_values_to_receive[p + 1] =
              obj[r].num_nodes_to_receive[p + 1] * nFields
  /\ \A r \in Ranks :
       msgData[r] # <<>> =>
         Len(msgData[r][1]) = obj[MASTER_NODE].MaxLocalTriaAll * 3 * 3

C6_Witness ==
  /\ AllAt("in_alltoallv_data")
  /\ \E r, p, q \in Ranks :
       /\ p # q
       /\ obj[r].num_values_to_receive[p + 1] > 0
       /\ obj[r].num_values_to_receive[q + 1] > obj[r].num_values_to_receive[p + 1]

(* C7: the file is opened and written exactly once, and only by the master. *)
C7_OnlyMasterWritesOnce ==
  /\ \A i \in 1 .. Len(io) : io[i][1] = MASTER_NODE
  /\ Cardinality({i \in 1 .. Len(io) : io[i][2] = "open"}) <= 1
  /\ pc[MASTER_NODE] = "done" =>
       io = << <<MASTER_NODE, "open">>, <<MASTER_NODE, "write">>,
               <<MASTER_NODE, "close">> >>
  /\ pc[MASTER_NODE] # "done" => io = <<>> /\ file = <<>>

C7_Witness == AllAt("done") /\ size > 1 /\ Len(file) > 2

(* C8: facet order.  The vertex lines of the finished file are those of    *)
(* rank 0's triangles, then rank 1's, and so on; within a rank the         *)
(* triangle elements in element order, then the two triangles of each      *)
(* quadrilateral; nothing of a padded tail is written.                     *)
VertexLines(f) ==
  LET idx == {i \in 1 .. Len(f) : f[i][1] = "vertex"}
  IN  [k \in 1 .. Cardinality(idx) |->
         f[CHOOSE i \in idx : Cardinality({j \in idx : j < i}) = k - 1]]

(* Rank and local index of the g-th triangle (from 0) in rank order. *)
RankOfTriangle(g) ==
  CHOOSE r \in Ranks :
    /\ SumTo([i \in 1 .. size |-> TrueCount(i - 1)], r) <= g
    /\ g < SumTo([i \in 1 .. size |-> TrueCount(i - 1)], r + 1)

ExpectedVertexLines ==
  [k \in 1 .. (3 * TotalTrueCount) |->
     LET g == (k - 1) \div 3
         r == RankOfTriangle(g)
         t == g - SumTo([i \in 1 .. size |-> TrueCount(i - 1)], r)
         n == ExpectedTriangle(r, t)[((k - 1) % 3) + 1]
     IN  <<"vertex", Precision6(OwnerValue(0, n)), Precision6(OwnerValue(1, n)),
           Precision6(OwnerValue(2, n))>>]

C8_FacetOrder ==
  pc[MASTER_NODE] = "done" => VertexLines(file) = ExpectedVertexLines

C8_Witness ==
  /\ pc[MASTER_NODE] = "done"
  /\ \E r1, r2 \in Ranks :
       r1 < r2 /\ TrueCount(r1) = 1 /\ TrueCount(r2) = 2

(* C9: quad splitting.  In every filled send buffer a quadrilateral with   *)
(* corners [A,B,C,D] occupies two consecutive triangles, [A,B,D] then      *)
(* [B,C,D], whichever of its corners are halo nodes.                       *)
C9_QuadSplit ==
  \A r \in Ranks :
    BufferFilled(r) =>
      \A q \in 0 .. ((Len(connQuad[r]) \div 4) - 1) :
        LET base == (Len(connTria[r]) \div 3 + 2 * q) * 9
            A == connQuad[r][4 * q + 1] - 1
            B == connQuad[r][4 * q + 2] - 1
            C == connQuad[r][4 * q + 3] - 1
            D == connQuad[r][4 * q + 4] - 1
            first  == <<A, B, D>>
            second == <<B, C, D>>
        IN  \A p \in 0 .. 2, f \in 0 .. 2 :
              /\ At(loc[r].bufD_Send, base + 3 * p + f) = OwnerValue(f, first[p + 1])
              /\ At(loc[r].bufD_Send, base + 9 + 3 * p + f) = OwnerValue(f, second[p + 1])

C9_Witness ==
  \E r \in Ranks :
    /\ pc[r] = "write"
    /\ Len(connTria[r]) > 0
    /\ \E i, j \in 1 .. Len(connQuad[r]) :
         OwnerOf(connQuad[r][i] - 1) = r /\ OwnerOf(connQuad[r][j] - 1) # r

(* C10: single rank.  With one rank the halo set is empty,                 *)
(* GetHaloNodeValue is never called, and the send buffer is the direct     *)
(* enumeration of the triangles and split quadrilaterals read from local   *)
(* storage.                                                                *)
C10_SingleRank ==
  size = 1 =>
    /\ pc[0] # "error"
    /\ haloCalls[0] = 0
    /\ pc[0] # "start" => obj[0].num_halo_nodes = 0 /\ obj[0].halo_nodes = {}
    /\ BufferFilled(0) =>
         loc[0].bufD_Send =
           [k \in 1 .. (TrueCount(0) * 9) |->
              GetData(0, (k - 1) % 3,
                      ExpectedTriangle(0, (k - 1) \div 9)[(((k - 1) \div 3) % 3) + 1]
                        - GetNodeBegin(0))]

C10_Witness ==
  size = 1 /\ pc[0] = "write" /\ Len(connTria[0]) > 0 /\ Len(connQuad[0]) > 0

(* C11 as stated: once a rank has finished the halo exchange,              *)
(* sorted_halo_nodes is exactly the ascending list of the non-owned nodes  *)
(* its elements refer to, with no other entry, also when there are none.   *)
C11_SortedHaloExact ==
  \A r \in Ranks :
    HaloDone(r) => obj[r].sorted_halo_nodes = SortedSeq(HaloSetOf(r))

(* C11, amended: once a rank has finished the halo exchange, the first     *)
(* num_halo_nodes entries of sorted_halo_nodes are exactly the non-owned   *)
(* nodes its elements refer to, strictly ascending; num_halo_nodes is      *)
(* their number and halo_nodes their set.  The list is never empty: a rank *)
(* without halo nodes holds the single entry 0, which is not a halo node.  *)
C11_SortedHaloPrefix ==
  \A r \in Ranks :
    HaloDone(r) =>
      LET s == obj[r].sorted_halo_nodes
          h == obj[r].num_halo_nodes
      IN  /\ h = Cardinality(HaloSetOf(r))
          /\ obj[r].halo_nodes = HaloSetOf(r)
          /\ Len(s) = Max2(1, h)
          /\ {s[i] : i \in 1 .. h} = HaloSetOf(r)
          /\ \A i \in 1 .. (h - 1) : s[i] < s[i + 1]
          /\ h = 0 => s = <<0>>

C11_Witness ==
  \E r1, r2 \in Ranks :
    /\ HaloDone(r1) /\ HaloDone(r2)
    /\ HaloSetOf(r1) = {}
    /\ Corners(r1) # {}
    /\ Cardinality(HaloSetOf(r2)) >= 2

(* The rank has not yet left the Alltoall of the counts. *)
BeforeRequest(r) == pc[r] \in {"start", "in_alltoall_demand"}

(* The rank has not yet left the Alltoallv of the node numbers. *)
BeforeData(r) == BeforeRequest(r) \/ pc[r] \in {"request", "in_alltoallv_request"}

(* How many nodes the peers of rank r want from it, read off their counts. *)
DemandedFrom(r) ==
  SumTo([p \in 1 .. size |-> obj[p - 1].num_nodes_to_receive[r + 1]], size)

Built(r) == pc[r] \in {"in_gather_data", "write", "done"}

InCalls(r, name) == \E i \in 1 .. Len(calls[r]) : calls[r][i] = name

C14_PaddedTailNeverRead ==
  pc[MASTER_NODE] = "write" =>
    LET o      == obj[MASTER_NODE]
        stride == o.MaxLocalTriaAll * 9
    IN  \A r \in Ranks :
          /\ ReadIndicesOf(o, r) =
               {i \in 0 .. (size * stride - 1) :
                  r * stride <= i /\ i < r * stride + TrueCount(r) * 9}
          /\ \A i \in ReadIndicesOf(o, r) :
               /\ i < Len(o.bufD_Recv)
               /\ At(o.bufD_Recv, i) = At(msgData[r][1], i - r * stride)
               /\ At(o.bufD_Recv, i) > 0

C14_Witness ==
  /\ pc[MASTER_NODE] = "write"
  /\ \E r \in Ranks :
       /\ r + 1 \in Ranks
       /\ TrueCount(r) > 0
       /\ TrueCount(r) < obj[MASTER_NODE].MaxLocalTriaAll
       /\ TrueCount(r + 1) > 0

(* Opening the file or writing to it has failed. *)
IOFailed ==
  \E i \in 1 .. Len(io) : io[i][2] \in {"open_failed", "write_failed"}

(* C15: after a failed open or write of the file the run is aborted and    *)
(* the master does not return from Write_Data as on success.               *)
C15_IOFailureIsFatal ==
  IOFailed => (aborted /\ pc[MASTER_NODE] # "done")

(* Every look-up of the rank's fill loops finds its node. *)
FillOk(r) == \A k \in 1 .. (FillCount(r) * nCoord) : FillValues(r)[k].found

(* C16 as stated: once a rank has raised the halo look-up error the file   *)
(* is neither opened nor written and no rank has returned from Write_Data. *)
C16_NoRankReturns ==
  aborted => (io = <<>> /\ file = <<>> /\ \A r \in Ranks : pc[r] # "done")

(* C16, amended: a rank whose fill meets a failed look-up raises the error *)
(* and goes no further; once the error is raised the master has not left   *)
(* the gather of the buffers, the file is neither opened nor written, and  *)
(* no rank takes another step.  A rank other than the master may have      *)
(* returned from Write_Data before the error was raised.                   *)
C16_ErrorAbortsRun ==
  /\ [](/\ \A r \in Ranks :
            /\ Built(r) => FillOk(r)
            /\ pc[r] = "error" => (aborted /\ ~FillOk(r))
        /\ aborted =>
             /\ \E r \in Ranks : pc[r] = "error"
             /\ pc[MASTER_NODE] \notin {"write", "done"}
             /\ io = <<>>
             /\ file = <<>>)
  /\ [][aborted => UNCHANGED vars]_vars

C16_Witness ==
  \E r, q \in Ranks :
    /\ aborted
    /\ pc[r] = "error"
    /\ pc[q] = "in_gather_data"
    /\ haloCalls[r] > 0

(* The seven lines from position base + 1 on form one facet record. *)
IsFacetRecord(f, base) ==
  /\ f[base + 1] = <<"facet normal", 1, 2, 3>>
  /\ f[base + 2] = <<"outer loop">>
  /\ \A j \in 3 .. 5 :
       /\ Len(f[base + j]) = 4
       /\ f[base + j][1] = "vertex"
       /\ \A c \in 2 .. 4 : f[base + j][c] \in Int
  /\ f[base + 6] = <<"endloop">>
  /\ f[base + 7] = <<"endfacet">>

CountLines(f, line) == Cardinality({i \in 1 .. Len(f) : f[i] = line})

(* C17: artifact structure.  Nothing is in the file before the master      *)
(* writes; the finished file starts with the one 'solid' line, ends with   *)
(* the one 'endsolid' line, and between them holds only complete facet     *)
(* records: normal (1,2,3), 'outer loop', three vertex lines of three      *)
(* scalars, 'endloop', 'endfacet'.  Without triangles the header is        *)
(* directly followed by the footer.                                        *)
C17_ArtifactStructure ==
  /\ pc[MASTER_NODE] # "done" => file = <<>>
  /\ pc[MASTER_NODE] = "done" =>
       /\ Len(file) >= 2
       /\ file[1] = <<"solid SU2_output">>
       /\ file[Len(file)] = <<"endsolid SU2_output">>
       /\ CountLines(file, <<"solid SU2_output">>) = 1
       /\ CountLines(file, <<"endsolid SU2_output">>) = 1
       /\ (Len(file) - 2) % 7 = 0
       /\ \A k \in 0 .. (((Len(file) - 2) \div 7) - 1) : IsFacetRecord(file, 1 + 7 * k)
       /\ TotalTrueCount = 0 =>
            file = << <<"solid SU2_output">>, <<"endsolid SU2_output">> >>

C17_Witness ==
  /\ pc[MASTER_NODE] = "done"
  /\ Len(file) = 2 + 7 * 3
  /\ TrueCount(MASTER_NODE) = 0

(* C18: nothing carries over from one Write_Data call to the next: in      *)
(* every call, once the rank has counted its requests per owner, the       *)
(* counts in num_nodes_to_receive sum to num_halo_nodes.                   *)
C18_NoCarryOver ==
  \A r \in Ranks :
    pc[r] # "start" =>
      SumTo(obj[r].num_nodes_to_receive, size) = obj[r].num_halo_nodes

(* The positions of a rank inside Write_Data, in program order. *)
PcOrder ==
  <<"start", "in_alltoall_demand", "request", "in_alltoallv_request", "data",
    "in_alltoallv_data", "gather_coord", "in_allreduce", "gather_count",
    "in_gather_count", "fill", "in_gather_data", "write", "done", "error">>

Position(label) == CHOOSE i \in 1 .. Len(PcOrder) : PcOrder[i] = label

Progress == SumTo([i \in 1 .. size |-> Position(pc[i - 1])], size)

(* Some rank can take its next step or some collective can complete: the   *)
(* guards of the actions of Next.                                          *)
CanStep ==
  /\ ~aborted
  /\ \/ \E r \in Ranks :
          pc[r] \in {"start", "request", "data", "gather_coord", "gather_count",
                     "fill", "write"}
     \/ \E label \in {"in_alltoall_demand", "in_alltoallv_request",
                       "in_alltoallv_data", "in_allreduce"} : AllAt(label)
     \/ pc[MASTER_NODE] = "in_gather_count" /\ \A r \in Ranks : msgCount[r] # <<>>
     \/ pc[MASTER_NODE] = "in_gather_data" /\ \A r \in Ranks : msgData[r] # <<>>

(* C19: termination.  As long as some rank has not returned from           *)
(* Write_Data, a rank can take a step or a collective can complete, for    *)
(* every mesh and rank count of the model, ranks without elements or       *)
(* without halo nodes included; and every step moves a rank forward, none  *)
(* back.  Under the fairness of SpecFair every rank therefore returns; no  *)
(* rank waits in a collective for a peer that never joins.                 *)
C19_Termination ==
  /\ [](AllAt("done") \/ CanStep)
  /\ [][/\ CanStep
         /\ Progress' > Progress
         /\ \A r \in Ranks : Position(pc'[r]) >= Position(pc[r])]_vars

C19_Witness ==
  /\ AllAt("done")
  /\ size = MaxRanks
  /\ \E r, q \in Ranks :
       /\ TrueCount(r) = 0
       /\ TrueCount(q) > 0
       /\ HaloSetOf(q) # {}

(* C20: local buffer layout.  In a filled send buffer the scalar at index  *)
(* t*9 + p*3 + f is field f of corner p of the rank's t-th triangle (the   *)
(* triangles, then the two halves of each quadrilateral), read from local  *)
(* storage at offset n - NodeBegin(r) when the rank owns node n and from   *)
(* the halo data otherwise.  The fill ends at index TrueCount(r)*9; what   *)
(* follows up to the stride is the zero of the allocation.                 *)
C20_BufferLayout ==
  \A r \in Ranks :
    BufferFilled(r) =>
      LET buf == loc[r].bufD_Send
      IN  /\ Len(buf) = obj[r].MaxLocalTriaAll * 9
          /\ FillCount(r) * nCoord = TrueCount(r) * 9
          /\ \A t \in 0 .. (TrueCount(r) - 1), p \in 0 .. 2, f \in 0 .. 2 :
               LET n == ExpectedTriangle(r, t)[p + 1]
               IN  At(buf, t * 9 + p * 3 + f) =
                     IF OwnerOf(n) = r
                     THEN GetData(r, f, n - GetNodeBegin(r))
                     ELSE GetHaloNodeValue(obj[r], n, f).val
          /\ \A i \in (TrueCount(r) * 9) .. (Len(buf) - 1) : At(buf, i) = 0

C20_Witness ==
  /\ pc[MASTER_NODE] = "in_gather_data"
  /\ TrueCount(MASTER_NODE) > 0
  /\ TrueCount(MASTER_NODE) < obj[MASTER_NODE].MaxLocalTriaAll
  /\ \E n, m \in Corners(MASTER_NODE) :
       OwnerOf(n) = MASTER_NODE /\ OwnerOf(m) # MASTER_NODE

(* C21: maximum-size buffers.  From the reduction on, MaxLocalTriaAll is   *)
(* the same on every rank: the largest localTriangles + 2 * localQuads of  *)
(* any rank.  Every index a rank's fill loops write lies inside a send     *)
(* buffer of MaxLocalTriaAll * 9 scalars, and every rank allocates and     *)
(* posts to the gather a buffer of exactly that length.                    *)
C21_MaxSizedBuffers ==
  \A r \in Ranks :
    LET cap == obj[r].MaxLocalTriaAll
    IN  /\ pc[r] \in {"gather_count", "in_gather_count", "fill", "in_gather_data",
                      "write", "done"} =>
             /\ cap = SetMax({TrueCount(q) : q \in Ranks})
             /\ \A q \in Ranks : obj[q].MaxLocalTriaAll = cap
             /\ TrueCount(r) <= cap
             /\ \A index \in 0 .. (FillCount(r) * nCoord - 1) : index < cap * 3 * 3
        /\ BufferFilled(r) =>
             /\ Len(loc[r].bufD_Send) = cap * 3 * 3
             /\ msgData[r] = <<loc[r].bufD_Send>>

C21_Witness ==
  \E r, q \in Ranks :
    /\ pc[r] = "write"
    /\ pc[q] = "fill"
    /\ TrueCount(q) > TrueCount(r)
    /\ TrueCount(r) > 0
    /\ Len(connQuad[q]) > 0

(* The halo nodes of rank r that rank p owns. *)
HaloOwnedBy(r, p) == {n \in HaloSetOf(r) : OwnerOf(n) = p}

(* The requests that target rank p: pairs of a peer and a node it wants. *)
RequestsTo(p) == UNION {{<<r, n>> : n \in HaloOwnedBy(r, p)} : r \in Ranks}

(* C22: result of the demand phase.  Once the exchange of the counts is    *)
(* over, num_nodes_to_send[r] on rank p is the number of halo nodes of r   *)
(* that p owns, which is also what r holds in num_nodes_to_receive[p]; a   *)
(* rank's counts for itself are zero in both directions; and the total a   *)
(* rank must supply is the number of (peer, node) requests that target it. *)
C22_DemandResult ==
  \A p \in Ranks :
    ~BeforeRequest(p) =>
      /\ \A r \in Ranks :
           /\ obj[p].num_nodes_to_send[r + 1] = Cardinality(HaloOwnedBy(r, p))
           /\ obj[r].num_nodes_to_receive[p + 1] = Cardinality(HaloOwnedBy(r, p))
      /\ obj[p].num_nodes_to_send[p + 1] = 0
      /\ obj[p].num_nodes_to_receive[p + 1] = 0
      /\ TotalNumNodesToSend(Displacements(obj[p].num_nodes_to_send),
                             obj[p].num_nodes_to_send) = Cardinality(RequestsTo(p))
      /\ pc[p] # "request" =>
           TotalNumNodesToSend(obj[p].nodes_to_send_displacements,
                               obj[p].num_nodes_to_send) = Cardinality(RequestsTo(p))

C22_Witness ==
  \E p, r, q \in Ranks :
    /\ pc[p] = "data"
    /\ r # q
    /\ Cardinality(HaloOwnedBy(r, p)) = 2
    /\ Cardinality(HaloOwnedBy(q, p)) = 1

(* The n entries of vector s from displacement d on. *)
Slice(s, d, n) == [i \in 1 .. n |-> At(s, d + i - 1)]

(* C23: request parcelling.  The halo list of rank r is grouped by owner   *)
(* in ascending rank order; for every peer p the slice of length           *)
(* num_nodes_to_receive[p] at nodes_to_receive_displacements[p] holds      *)
(* exactly the halo nodes of r that p owns; and after the exchange the     *)
(* block p has received from r holds these same IDs, every one owned by p. *)
C23_RequestParcelling ==
  \A r \in Ranks :
    /\ (~BeforeRequest(r) /\ pc[r] # "request") =>
         LET o == obj[r]
         IN  /\ \A i, j \in 1 .. o.num_halo_nodes :
                  i < j => OwnerOf(o.sorted_halo_nodes[i]) <= OwnerOf(o.sorted_halo_nodes[j])
             /\ \A p \in Ranks :
                  Slice(o.sorted_halo_nodes, o.nodes_to_receive_displacements[p + 1],
                        o.num_nodes_to_receive[p + 1]) = SortedSeq(HaloOwnedBy(r, p))
    /\ ~BeforeData(r) =>
         \A p \in Ranks :
           LET got == Slice(obj[p].nodes_to_send, obj[p].nodes_to_send_displacements[r + 1],
                            obj[p].num_nodes_to_send[r + 1])
           IN  /\ got = SortedSeq(HaloOwnedBy(r, p))
               /\ \A i \in 1 .. Len(got) : FindProcessor(got[i]) = p

C23_Witness ==
  \E r, p, q \in Ranks :
    /\ pc[r] = "data"
    /\ p < q
    /\ Cardinality(HaloOwnedBy(r, p)) >= 1
    /\ Cardinality(HaloOwnedBy(r, q)) = 2
    /\ \E r2 \in Ranks : r2 # r /\ HaloOwnedBy(r2, q) # {}

(* The rank has packed the values its peers requested (l.133-150). *)
DataPacked(p) == ~BeforeData(p) /\ pc[p] # "data"

(* C24 as stated: in the payload rank p returns to peer r the nFields      *)
(* values of request i form one contiguous group, followed by those of     *)
(* request i + 1: field f of request i is at i * nFields + f of the block. *)
C24_PackedPerNode ==
  \A p \in Ranks :
    DataPacked(p) =>
      \A r \in Ranks :
        LET req == SortedSeq(HaloOwnedBy(r, p))
            vd  == obj[p].values_to_send_displacements[r + 1]
        IN  \A i \in 0 .. (Len(req) - 1), f \in 0 .. (nFields - 1) :
              At(obj[p].data_to_send, vd + i * nFields + f) = OwnerValue(f, req[i + 1])

(* C24, amended: the payload rank p returns to peer r is packed field by   *)
(* field: with n requests of r, field f of request i is at f * n + i of    *)
(* the block, so the n values of one field are contiguous and the values   *)
(* of one node lie n apart.  The peer receives the block in this layout at *)
(* its displacement for p.                                                 *)
C24_PackedPerField ==
  \A p \in Ranks :
    /\ DataPacked(p) =>
         \A r \in Ranks :
           LET req == SortedSeq(HaloOwnedBy(r, p))
               vd  == obj[p].values_to_send_displacements[r + 1]
           IN  /\ obj[p].num_values_to_send[r + 1] = Len(req) * nFields
               /\ \A i \in 0 .. (Len(req) - 1), f \in 0 .. (nFields - 1) :
                    At(obj[p].data_to_send, vd + f * Len(req) + i) = OwnerValue(f, req[i + 1])
    /\ HaloDone(p) =>
         \A r \in Ranks :
           LET req == SortedSeq(HaloOwnedBy(r, p))
               vd  == obj[r].values_to_receive_displacements[p + 1]
           IN  \A i \in 0 .. (Len(req) - 1), f \in 0 .. (nFields - 1) :
                 At(obj[r].halo_var_data, vd + f * Len(req) + i) = OwnerValue(f, req[i + 1])

C24_Witness ==
  \E p, r, q \in Ranks :
    /\ HaloDone(p)
    /\ r # q
    /\ Cardinality(HaloOwnedBy(r, p)) = 2
    /\ Cardinality(HaloOwnedBy(q, p)) = 1
    /\ q < r

(* What holds of a rank with an empty halo set in the halo exchange: its   *)
(* halo size and the counts of what it requests and receives are 0, the    *)
(* buffers it hands to the exchanges have at least one element, and every  *)
(* look-up ends in the error.                                              *)
EmptyHaloExchange(r) ==
  LET o == obj[r]
  IN  /\ pc[r] # "start" =>
           /\ o.num_halo_nodes = 0
           /\ \A p \in Ranks : o.num_nodes_to_receive[p + 1] = 0
      /\ (~BeforeRequest(r) /\ pc[r] # "request") =>
           /\ o.sorted_halo_nodes = <<0>>
           /\ Len(o.nodes_to_send) >= 1
           /\ \A p \in Ranks : o.nodes_to_receive_displacements[p + 1] = 0
      /\ DataPacked(r) =>
           /\ Len(o.data_to_send) >= 1
           /\ Len(o.halo_var_data) = 1
           /\ \A p \in Ranks :
                o.num_values_to_receive[p + 1] = 0 /\ o.values_to_receive_displacements[p + 1] = 0
      /\ HaloDone(r) =>
           \A n \in ProbeNodes, iVar \in 0 .. (nCoord - 1) :
             ~GetHaloNodeValue(o, n, iVar).found
      /\ (probe.made /\ probe.rank = r) => ~probe.found

(* C25 as stated: on a rank with an empty halo set every buffer handed to  *)
(* a collective, the send and receive buffers of the two gathers included, *)
(* has at least one element; its halo size and request counts are 0; and   *)
(* every halo look-up on it ends in the error.                             *)
C25_EveryBufferNonEmpty ==
  \A r \in Ranks :
    HaloSetOf(r) = {} =>
      /\ EmptyHaloExchange(r)
      /\ BufferFilled(r) =>
           /\ Len(loc[r].bufD_Send) >= 1
           /\ r = MASTER_NODE => Len(obj[r].bufD_Recv) >= 1

(* C25, amended: on a rank with an empty halo set every buffer handed to   *)
(* the three exchanges of the halo resolver has at least one element while *)
(* num_halo_nodes and the counts and displacements of what the rank        *)
(* requests and receives are 0; the one entry of sorted_halo_nodes is      *)
(* never taken for a halo node: every look-up on that rank, for node 0     *)
(* too, ends in the error.  The buffers of the final gather have           *)
(* MaxLocalTriaAll * 9 elements per rank: none when no rank has a triangle. *)
C25_EmptyHalo ==
  \A r \in Ranks :
    HaloSetOf(r) = {} =>
      /\ EmptyHaloExchange(r)
      /\ BufferFilled(r) =>
           /\ Len(loc[r].bufD_Send) = obj[r].MaxLocalTriaAll * 9
           /\ r = MASTER_NODE => Len(obj[r].bufD_Recv) = size * obj[r].MaxLocalTriaAll * 9
           /\ (\A q \in Ranks : TrueCount(q) = 0) => loc[r].bufD_Send = <<>>

C25_Witness ==
  /\ probe.made
  /\ probe.node = 0
  /\ HaloSetOf(probe.rank) = {}
  /\ Corners(probe.rank) # {}
  /\ \E q \in Ranks : HaloOwnedBy(q, probe.rank) # {}

(* The heap buffers of GatherCoordData and Write_Data. *)
Buffers == {"bufD_Send", "bufD_Recv", "Buffer_Recv_nTriaAll"}

(* The buffers a rank allocates in one Write_Data. *)
AllocatedBy(r) == IF r = MASTER_NODE THEN Buffers ELSE {"bufD_Send"}

(* How often the rank has done op on the buffer in its first n heap events. *)
CountEvents(r, op, buffer, n) ==
  Cardinality({i \in 1 .. n : heap[r][i] = <<op, buffer>>})

(* Every delete[] and every read hits a buffer the rank has allocated and  *)
(* not yet released; a rank that has returned has released each buffer it  *)
(* allocated exactly once and no other.                                    *)
ReleasedExactlyOnce(r) ==
  /\ \A i \in 1 .. Len(heap[r]) :
       heap[r][i][1] \in {"delete", "read"} =>
         CountEvents(r, "new", heap[r][i][2], i - 1)
           = CountEvents(r, "delete", heap[r][i][2], i - 1) + 1
  /\ pc[r] = "done" =>
       \A b \in Buffers :
         /\ CountEvents(r, "new", b, Len(heap[r])) = (IF b \in AllocatedBy(r) THEN 1 ELSE 0)
         /\ CountEvents(r, "delete", b, Len(heap[r])) = CountEvents(r, "new", b, Len(heap[r]))

(* C26 as stated: every rank that has returned has released each buffer it *)
(* allocated exactly once and no other, and on the coordinator every       *)
(* release comes after the file has been written.                          *)
C26_ReleaseAfterWrite ==
  \A r \in Ranks :
    /\ ReleasedExactlyOnce(r)
    /\ \A i \in 1 .. Len(heap[MASTER_NODE]) :
         heap[MASTER_NODE][i][1] = "delete" =>
           \E j \in 1 .. (i - 1) : heap[MASTER_NODE][j][1] = "read"

(* C26, amended: every rank releases its send buffer when GatherCoordData  *)
(* ends, after the gather and on the coordinator before the file is        *)
(* written; the coordinator releases the count buffer and the receive      *)
(* buffer after the write.  A rank that has returned from Write_Data has   *)
(* released each buffer it allocated in the call exactly once; a rank      *)
(* other than the coordinator releases nothing but its send buffer; and    *)
(* nothing is released before the rank has left the gather of the buffers. *)
C26_BufferRelease ==
  \A r \in Ranks :
    /\ ReleasedExactlyOnce(r)
    /\ pc[r] # "done" => \A i \in 1 .. Len(heap[r]) : heap[r][i][1] = "new"
    /\ \A i \in 1 .. Len(heap[r]) :
         /\ heap[r][i] = <<"delete", "bufD_Send">> =>
              /\ InCalls(r, "Gather(bufD)")
              /\ \A j \in 1 .. (i - 1) : heap[r][j][1] = "new"
         /\ (heap[r][i][1] = "delete" /\ heap[r][i][2] # "bufD_Send") =>
              /\ r = MASTER_NODE
              /\ \E j \in 1 .. (i - 1) : heap[r][j] = <<"read", "Buffer_Recv_nTriaAll">>
              /\ \A j \in (i + 1) .. Len(heap[r]) : heap[r][j][1] = "delete"
         /\ heap[r][i][1] = "read" => r = MASTER_NODE

C26_Witness ==
  /\ AllAt("done")
  /\ size > 1
  /\ Len(file) > 2
  /\ <<"read", "bufD_Recv">> \in {heap[MASTER_NODE][i] : i \in 1 .. Len(heap[MASTER_NODE])}

(* C27: one field width throughout.  For every field count the writer is   *)
(* constructed with, the count used as payload width in the data phase is  *)
(* the width the buffer builder reads per node, the width that sizes the   *)
(* send buffer and sets the gather stride, and the width the writer emits  *)
(* per vertex, each scalar being a field of that node held by its owner.   *)
C27_OneFieldWidth ==
  /\ \A r \in Ranks :
       /\ DataPacked(r) =>
            \A p \in Ranks :
              /\ obj[r].num_values_to_send[p + 1] = obj[r].num_nodes_to_send[p + 1] * nFields
              /\ obj[r].num_values_to_receive[p + 1] =
                   obj[r].num_nodes_to_receive[p + 1] * nFields
       /\ BufferFilled(r) =>
            /\ Len(loc[r].bufD_Send) = obj[r].MaxLocalTriaAll * 3 * nFields
            /\ Len(msgData[r][1]) = obj[r].MaxLocalTriaAll * 3 * nFields
            /\ \A t \in 0 .. (TrueCount(r) - 1), p \in 0 .. 2, f \in 0 .. (nFields - 1) :
                 At(loc[r].bufD_Send, (t * 3 + p) * nFields + f)
                   = FieldValue(f, ExpectedTriangle(r, t)[p + 1])
  /\ pc[MASTER_NODE] = "done" =>
       \A i \in 1 .. Len(file) :
         file[i][1] = "vertex" =>
           /\ Len(file[i]) = 1 + nFields
           /\ \A c \in 2 .. Len(file[i]) : file[i][c] # Undef

(* The number of nodes rank p owns. *)
LocalNodeCount(p) == nodeBegin[p + 2] - nodeBegin[p + 1]

(* C28: every global node ID rank p has received in the request phase is   *)
(* owned by p: its local offset ID - NodeBegin(p) is not negative (it does *)
(* not wrap as an unsigned value) and is smaller than the number of nodes  *)
(* p owns; every value p has packed for a peer is a field of a node of its *)
(* own range.                                                              *)
C28_ReceivedIdsAreOwned ==
  \A p \in Ranks :
    /\ ~BeforeData(p) =>
         \A r \in Ranks :
           \A iNode \in 0 .. (obj[p].num_nodes_to_send[r + 1] - 1) :
             LET id == At(obj[p].nodes_to_send,
                          obj[p].nodes_to_send_displacements[r + 1] + iNode)
             IN  /\ FindProcessor(id) = p
                 /\ id - GetNodeBegin(p) >= 0
                 /\ id - GetNodeBegin(p) < LocalNodeCount(p)
    /\ DataPacked(p) =>
         \A k \in 1 .. (Cardinality(RequestsTo(p)) * nFields) :
           \E f \in 0 .. (nFields - 1), n \in nodeBegin[p + 1] .. (nodeBegin[p + 2] - 1) :
             obj[p].data_to_send[k] = FieldValue(f, n)

C28_Witness ==
  \E p, r, q \in Ranks :
    /\ pc[p] = "in_alltoallv_data"
    /\ p > 0
    /\ r < p /\ p < q
    /\ HaloOwnedBy(r, p) # {}
    /\ HaloOwnedBy(q, p) # {}
    /\ HaloOwnedBy(q, r) # {}

(* The gathered buffer as a function of mesh and fields alone: rank r's    *)
(* stride holds the coordinates of its triangles, then zeros.              *)
ExpectedGathered ==
  LET stride == 9 * SetMax({TrueCount(q) : q \in Ranks})
  IN  [j \in 1 .. (size * stride) |->
         LET r == (j - 1) \div stride
             k == (j - 1) % stride
         IN  IF k < TrueCount(r) * 9
             THEN OwnerValue(k % 3, ExpectedTriangle(r, k \div 9)[((k \div 3) % 3) + 1])
             ELSE 0]

(* The scratch state of rank r. *)
ScratchOf(r) == <<obj[r], loc[r], calls[r], haloCalls[r], heap[r], msgCount[r], msgData[r]>>

(* C29: rank-local scratch state.  The scratch state of a rank changes     *)
(* only in a step of that rank or in a collective the rank takes part in.  *)
(* After the exchanges the value a rank reads for a corner node is the     *)
(* owner's field value, and the gathered buffer is a function of mesh and  *)
(* fields alone: it is the same in every order in which the ranks progress *)
(* between the collectives.                                                *)
C29_RankLocalScratch ==
  /\ [](/\ \A r \in Ranks :
            HaloDone(r) =>
              \A n \in Corners(r), iVar \in 0 .. (nCoord - 1) :
                CornerValue(r, n, iVar).val = OwnerValue(iVar, n)
        /\ pc[MASTER_NODE] = "write" => obj[MASTER_NODE].bufD_Recv = ExpectedGathered)
  /\ [][\A r \in Ranks : pc'[r] = pc[r] => ScratchOf(r)' = ScratchOf(r)]_vars

C29_Witness ==
  /\ pc[MASTER_NODE] = "write"
  /\ size = MaxRanks
  /\ \E r, q \in Ranks :
       /\ r # q
       /\ HaloSetOf(r) # {}
       /\ HaloSetOf(q) # {}
       /\ pc[q] = "done"
       /\ pc[r] = "write"

(* v is the product of a and b, a and b not negative. *)
IsProduct(v, a, b) == IF b = 0 THEN v = 0 ELSE v >= 0 /\ v % b = 0 /\ v \div b = a

(* C30: no 32-bit count wraps.  The value count handed to the exchange of  *)
(* the values is the number of nodes times the field count, and the count  *)
(* handed to the gather of the buffers is MaxLocalTriaAll * 9, the length  *)
(* of the allocated send buffer, whatever the size of the run.             *)
C30_NoCountWraps ==
  /\ bigRun.step \in {"reduce", "gather", "done"} =>
       IsProduct(bigRun.num_values_to_send, bigRun.num_nodes_to_send, bigRun.nFields)
  /\ bigRun.step = "done" =>
       IsProduct(bigRun.gather_count, bigRun.MaxLocalTriaAll, 9)

====
